---- MODULE Spec2Model ----
(***************************************************************************)
(* World-map quiz: the name resolver (normalizeInput, countryAliases,      *)
(* resolveCountry), the adjacency builder (normalizeName,                  *)
(* buildAdjacencyList), the Neighbors game hook (useNeighborGame) and the  *)
(* App component's handlers, as one state machine.                          *)
(*                                                                         *)
(* JavaScript strings are TLA+ strings; a character is a string of length  *)
(* one, taken with SubSeq.  null and undefined are the two tokens below.   *)
(***************************************************************************)
EXTENDS Naturals, Sequences, FiniteSets, TLC

VARIABLES
  topology,          \* the content of the fetched world-atlas resource
  loadState,         \* the d3.json promise: "pending", "loaded" or "failed"
  mapData,           \* App state mapData
  neighborMap,       \* App state neighborMap (a Map: name -> list of names)
  mode,              \* App state mode
  guessedCountries,  \* App state guessedCountries: the keys whose value is true
  guessedOrder,      \* App state guessedOrder
  revealedCountries, \* App state revealedCountries
  input,             \* App state input
  seconds,           \* App state seconds
  gameStarted,       \* App state gameStarted
  gameEnded,         \* App state gameEnded
  gameState,         \* useNeighborGame state (NeighborGameState)
  revealedByGiveUp,  \* App state revealedByGiveUp
  gaveUpThisRound,   \* App state gaveUpThisRound
  lastEvent          \* the event handler that ran last, with its argument

vars == <<topology, loadState, mapData, neighborMap, mode, guessedCountries,
          guessedOrder, revealedCountries, input, seconds, gameStarted,
          gameEnded, gameState, revealedByGiveUp, gaveUpThisRound, lastEvent>>

null == "<null>"

undefined == "<undefined>"

Range(s) == {s[i] : i \in 1..Len(s)}

(***************************************************************************)
(* Bounds of the model.                                                    *)
(***************************************************************************)
\* Number of geometries in a generated topology.
NumGeometries == 4

\* Largest number of shared boundary arcs in a generated topology.
MaxBorders == 3

\* The Classic timer is followed up to this many seconds.
MaxSeconds == 2

\* Rounds are started while the score is below this.
MaxScore == 2

(***************************************************************************)
(* String.prototype.trim / toLowerCase / replace, character by character.  *)
(***************************************************************************)
CharAt(s, i) == SubSeq(s, i, i)

\* The characters the regular expression class \s matches (those the model types).
IsWhiteSpace(c) == c \in {" ", "\t", "\n"}

UpperCaseLetters == "ABCDEFGHIJKLMNOPQRSTUVWXYZÃ"

LowerCaseLetters == "abcdefghijklmnopqrstuvwxyzã"

LowerChar(c) ==
  IF \E i \in 1..Len(UpperCaseLetters) : CharAt(UpperCaseLetters, i) = c
  THEN CharAt(LowerCaseLetters,
              CHOOSE i \in 1..Len(UpperCaseLetters) : CharAt(UpperCaseLetters, i) = c)
  ELSE c

RECURSIVE toLowerCase(_)
toLowerCase(s) ==
  IF s = "" THEN "" ELSE LowerChar(CharAt(s, 1)) \o toLowerCase(Tail(s))

RECURSIVE trimStart(_)
trimStart(s) ==
  IF s # "" /\ IsWhiteSpace(CharAt(s, 1)) THEN trimStart(Tail(s)) ELSE s

RECURSIVE trimEnd(_)
trimEnd(s) ==
  IF s # "" /\ IsWhiteSpace(CharAt(s, Len(s)))
  THEN trimEnd(SubSeq(s, 1, Len(s) - 1))
  ELSE s

trim(s) == trimEnd(trimStart(s))

\* str.replace(/[\s-]/g, '')
RECURSIVE StripSpacesAndDashes(_)
StripSpacesAndDashes(s) ==
  IF s = "" THEN ""
  ELSE LET c == CharAt(s, 1)
       IN  (IF IsWhiteSpace(c) \/ c = "-" THEN "" ELSE c)
             \o StripSpacesAndDashes(Tail(s))

\* normalizeInput without the replace: only the ends are cleaned.
normalizeInputTrimOnly(str) == toLowerCase(trim(str))

normalizeInput(str) == StripSpacesAndDashes(toLowerCase(trim(str)))

(***************************************************************************)
(* The canonical country list and the alias table.                         *)
(***************************************************************************)
allCountries == <<
  "Afghanistan", "Albania", "Algeria", "Andorra", "Angola", "Antigua and Barbuda",
  "Argentina", "Armenia", "Australia", "Austria", "Azerbaijan", "Bahamas", "Bahrain",
  "Bangladesh", "Barbados", "Belarus", "Belgium", "Belize", "Benin", "Bhutan", "Bolivia",
  "Bosnia and Herzegovina", "Botswana", "Brazil", "Brunei", "Bulgaria", "Burkina Faso",
  "Burundi", "Cameroon", "Cambodia", "Canada", "Cabo Verde", "Central African Republic",
  "Chad", "Chile", "China", "Colombia", "Comoros", "Republic of the Congo", "Costa Rica",
  "Croatia", "Cuba", "Cyprus", "Czech Republic", "Democratic Republic of the Congo",
  "Denmark", "Djibouti", "Dominica", "Dominican Republic", "Ecuador", "Egypt",
  "El Salvador", "Equatorial Guinea", "Eritrea", "Estonia", "Eswatini", "Ethiopia", "Fiji",
  "Finland", "France", "Gabon", "Gambia", "Georgia", "Germany", "Ghana", "Greece",
  "Grenada", "Guatemala", "Guinea", "Guinea-Bissau", "Guyana", "Haiti", "Honduras",
  "Hungary", "Iceland", "India", "Indonesia", "Iran", "Iraq", "Ireland", "Israel", "Italy",
  "CÃ´te d'Ivoire", "Jamaica", "Japan", "Jordan", "Kazakhstan", "Kenya", "Kiribati",
  "Kosovo", "Kuwait", "Kyrgyzstan", "Laos", "Latvia", "Lebanon", "Lesotho", "Liberia",
  "Libya", "Liechtenstein", "Lithuania", "Luxembourg", "Madagascar", "Malawi", "Malaysia",
  "Maldives", "Mali", "Malta", "Marshall Islands", "Mauritania", "Mauritius", "Mexico",
  "Micronesia", "Moldova", "Monaco", "Mongolia", "Montenegro", "Morocco", "Mozambique",
  "Myanmar", "Namibia", "Nauru", "Nepal", "Netherlands", "New Zealand", "Nicaragua",
  "Niger", "Nigeria", "North Korea", "North Macedonia", "Norway", "Oman", "Pakistan",
  "Palau", "Palestine", "Panama", "Papua New Guinea", "Paraguay", "Peru", "Philippines",
  "Poland", "Portugal", "Qatar", "Romania", "Russia", "Rwanda", "Saint Kitts and Nevis",
  "Saint Lucia", "Saint Vincent and the Grenadines", "Samoa", "San Marino",
  "Sao Tome and Principe", "Saudi Arabia", "Senegal", "Serbia", "Seychelles",
  "Sierra Leone", "Singapore", "Slovakia", "Slovenia", "Solomon Islands", "Somalia",
  "South Africa", "South Korea", "South Sudan", "Spain", "Sri Lanka", "Sudan", "Suriname",
  "Sweden", "Switzerland", "Syria", "Taiwan", "Tajikistan", "Tanzania", "Thailand",
  "Timor-Leste", "Togo", "Tonga", "Trinidad and Tobago", "Tunisia", "Turkey",
  "Turkmenistan", "Tuvalu", "Uganda", "Ukraine", "United Arab Emirates", "United Kingdom",
  "United States of America", "Uruguay", "Uzbekistan", "Vanuatu", "Vatican City",
  "Venezuela", "Vietnam", "Yemen", "Zambia", "Zimbabwe"
>>

CanonicalCountries == Range(allCountries)

\* The abbreviations and alternate names registered after a country's own key.
ExtraAliases(country) ==
  CASE country = "United States of America" -> <<"usa", "america">>
    [] country = "United Arab Emirates" -> <<"uae", "emirates">>
    [] country = "Czech Republic" -> <<"czechia">>
    [] country = "North Macedonia" -> <<"macedonia">>
    [] country = "Saint Kitts and Nevis" -> <<"stkittsandnevis">>
    [] country = "Saint Lucia" -> <<"stlucia">>
    [] country = "Saint Vincent and the Grenadines" -> <<"stvincentandthegrenadines">>
    [] country = "Central African Republic" -> <<"car">>
    [] country = "Republic of the Congo" -> <<"republicofcongo", "congo">>
    [] country = "Democratic Republic of the Congo" -> <<"drc", "congkinshasa">>
    [] country = "United Kingdom" -> <<"uk", "britain", "greatbritain">>
    [] country = "South Korea" -> <<"korea">>
    [] country = "Ivory Coast" -> <<"cotedivoire", "ivorycoast">>
    [] country = "CÃ´te d'Ivoire" -> <<"cotedivoire", "ivorycoast">>
    [] country = "Vatican City" -> <<"vatican", "holysee">>
    [] OTHER -> <<>>

\* The keys the forEach callback assigns for the country at index n.
KeysOf(n) ==
  {normalizeInput(allCountries[n])} \cup Range(ExtraAliases(allCountries[n]))

AssignedKeys == [n \in 1..Len(allCountries) |-> KeysOf(n)]

\* The object the useMemo returns.  forEach visits the countries in list
\* order, so a key assigned for two countries keeps the later one.
countryAliases ==
  [k \in UNION {AssignedKeys[n] : n \in 1..Len(allCountries)} |->
     allCountries[CHOOSE n \in 1..Len(allCountries) :
                    /\ k \in AssignedKeys[n]
                    /\ \A m \in (n + 1)..Len(allCountries) : k \notin AssignedKeys[m]]]

\* countryAliases is an object literal, so a read of a key it does not own
\* finds the properties of Object.prototype.
ObjectPrototypeKeys ==
  {"constructor", "__proto__", "hasOwnProperty", "isPrototypeOf",
   "propertyIsEnumerable", "toLocaleString", "toString", "valueOf"}

InheritedProperty(key) == "<Object.prototype." \o key \o ">"

InheritedValues == {InheritedProperty(k) : k \in ObjectPrototypeKeys}

\* countryAliases[key]
AliasLookup(key) ==
  IF key \in DOMAIN countryAliases THEN countryAliases[key]
  ELSE IF key \in ObjectPrototypeKeys THEN InheritedProperty(key)
  ELSE undefined

resolveCountry(text) ==
  LET normalized == normalizeInput(text)
      found == AliasLookup(normalized)
  IN  IF found # undefined THEN found ELSE null

\* The property key an object is indexed with: a string is its own key, any
\* other value is converted with String().
ToPropertyKey(value) ==
  IF value \in InheritedValues THEN "String(" \o value \o ")" ELSE value

(***************************************************************************)
(* mapHelpers.ts: the dataset-label remap and the adjacency builder.       *)
(***************************************************************************)
NAME_MAP ==
  [k \in {"United States of America", "Dem. Rep. Congo", "Congo", "S. Sudan",
          "Central African Rep."} |->
     CASE k = "United States of America" -> "United States"
       [] k = "Dem. Rep. Congo" -> "Democratic Republic of the Congo"
       [] k = "Congo" -> "Republic of the Congo"
       [] k = "S. Sudan" -> "South Sudan"
       [] k = "Central African Rep." -> "Central African Republic"]

normalizeName(name) == IF name \in DOMAIN NAME_MAP THEN NAME_MAP[name] ELSE name

\* The world-atlas names WorldMap.tsx remaps before it compares a feature with
\* the canonical list.
TERRITORY_NAME_MAP ==
  [k \in {"St. Martin", "Sint Maarten", "Czechia", "Bosnia and Herz.",
          "North Macedonia", "Macedonia", "Solomon Is.", "Marshall Is.", "Kiribati",
          "Tuvalu", "Dominican Rep.", "Antigua and Barb.", "St. Kitts and Nevis",
          "St. Vin. and Gren.", "St Vincent and Grenadines",
          "St Vincent and the Grenadines", "W. Sahara", "Côte d'Ivoire",
          "Ivory Coast", "C.A.R.", "Central African Rep.", "S. Sudan",
          "Dem. Rep. Congo", "Congo", "Eq. Guin.", "Eq. Guinea", "Vatican",
          "São Tomé and Principe", "São Tomé and Príncipe", "Eswatini", "eSwatini",
          "Fr. Guiana", "Réunion", "Martinique", "Guadeloupe"} |->
     CASE k = "St. Martin" -> "Saint Martin"
       [] k = "Sint Maarten" -> "Sint Maarten"
       [] k = "Czechia" -> "Czech Republic"
       [] k = "Bosnia and Herz." -> "Bosnia and Herzegovina"
       [] k = "North Macedonia" -> "North Macedonia"
       [] k = "Macedonia" -> "North Macedonia"
       [] k = "Solomon Is." -> "Solomon Islands"
       [] k = "Marshall Is." -> "Marshall Islands"
       [] k = "Kiribati" -> "Kiribati"
       [] k = "Tuvalu" -> "Tuvalu"
       [] k = "Dominican Rep." -> "Dominican Republic"
       [] k = "Antigua and Barb." -> "Antigua and Barbuda"
       [] k = "St. Kitts and Nevis" -> "Saint Kitts and Nevis"
       [] k = "St. Vin. and Gren." -> "Saint Vincent and the Grenadines"
       [] k = "St Vincent and Grenadines" -> "Saint Vincent and the Grenadines"
       [] k = "St Vincent and the Grenadines" -> "Saint Vincent and the Grenadines"
       [] k = "W. Sahara" -> "Western Sahara"
       [] k = "Côte d'Ivoire" -> "Côte d'Ivoire"
       [] k = "Ivory Coast" -> "Côte d'Ivoire"
       [] k = "C.A.R." -> "Central African Republic"
       [] k = "Central African Rep." -> "Central African Republic"
       [] k = "S. Sudan" -> "South Sudan"
       [] k = "Dem. Rep. Congo" -> "Democratic Republic of the Congo"
       [] k = "Congo" -> "Republic of the Congo"
       [] k = "Eq. Guin." -> "Equatorial Guinea"
       [] k = "Eq. Guinea" -> "Equatorial Guinea"
       [] k = "Vatican" -> "Vatican City"
       [] k = "São Tomé and Principe" -> "Sao Tome and Principe"
       [] k = "São Tomé and Príncipe" -> "Sao Tome and Principe"
       [] k = "Eswatini" -> "Eswatini"
       [] k = "eSwatini" -> "Eswatini"
       [] k = "Fr. Guiana" -> "French Guiana"
       [] k = "Réunion" -> "Réunion"
       [] k = "Martinique" -> "Martinique"
       [] k = "Guadeloupe" -> "Guadeloupe"]

\* TERRITORY_NAME_MAP[name] || name
mappedName(name) ==
  IF name \in DOMAIN TERRITORY_NAME_MAP THEN TERRITORY_NAME_MAP[name] ELSE name

RECURSIVE SortedSeq(_)
SortedSeq(S) ==
  IF S = {} THEN <<>>
  ELSE LET m == CHOOSE x \in S : \A y \in S : x <= y
       IN  <<m>> \o SortedSeq(S \ {m})

\* topojson.neighbors(objects): for each object the ascending indices of the
\* other objects that use one of its arcs.
TopoNeighbors(geometries) ==
  [i \in 1..Len(geometries) |->
     SortedSeq({j \in 1..Len(geometries) :
                  j # i /\ geometries[i].arcs \cap geometries[j].arcs # {}})]

\* The list without the filter that removes the own name.
SelectSeqKeepsAll(s, x) == s

SelectSeqNot(s, x) == SelectSeq(s, LAMBDA n : n # x)

MapSet(map, key, value) ==
  [k \in DOMAIN map \cup {key} |-> IF k = key THEN value ELSE map[k]]

\* map.get(key) || []
MapGetOrEmpty(map, key) == IF key \in DOMAIN map THEN map[key] ELSE <<>>

\* The body of geometries.forEach without the test of the length: the list is
\* stored also when it is empty.
BuildStepAlwaysSets(neighborMapSoFar, geometries, neighborsIndices, index) ==
  LET countryName == normalizeName(geometries[index].properties.name)
      mapped == [k \in 1..Len(neighborsIndices[index]) |->
                   normalizeName(geometries[neighborsIndices[index][k]].properties.name)]
  IN  MapSet(neighborMapSoFar, countryName, SelectSeqNot(mapped, countryName))

\* The body of geometries.forEach for the geometry at `index`.
BuildStep(neighborMapSoFar, geometries, neighborsIndices, index) ==
  LET countryName == normalizeName(geometries[index].properties.name)
      mapped == [k \in 1..Len(neighborsIndices[index]) |->
                   normalizeName(geometries[neighborsIndices[index][k]].properties.name)]
      neighborNames == SelectSeqNot(mapped, countryName)
  IN  IF Len(neighborNames) > 0
      THEN MapSet(neighborMapSoFar, countryName, neighborNames)
      ELSE neighborMapSoFar

RECURSIVE BuildUpTo(_, _, _)
BuildUpTo(geometries, neighborsIndices, n) ==
  IF n = 0 THEN <<>>
  ELSE BuildStep(BuildUpTo(geometries, neighborsIndices, n - 1),
                 geometries, neighborsIndices, n)

\* Reading topology.objects.countries.geometries throws a TypeError when the
\* countries object is missing.
BuildThrows(topo) == "countries" \notin DOMAIN topo.objects

buildAdjacencyList(topo) ==
  LET geometries == topo.objects.countries.geometries
  IN  BuildUpTo(geometries, TopoNeighbors(geometries), Len(geometries))

(***************************************************************************)
(* The topologies the model loads.                                         *)
(***************************************************************************)
\* A topology whose geometry i carries names[i] and where the geometries of
\* each pair in borders share one arc (the arc is named by the pair).
Topology(names, borders) ==
  [objects |->
     [countries |->
        [geometries |->
           [i \in 1..Len(names) |->
              [properties |-> [name |-> names[i]],
               arcs |-> {b \in borders : i \in b}]]]]]

\* A resource without the countries object.
MalformedTopology == [objects |-> [land |-> <<>>]]

\* The promise of d3.json rejects.
FetchError == [error |-> "Failed to fetch"]

RawLabels == {"Canada", "United States of America", "S. Sudan"}

BorderPairs == {{i, j} : i, j \in 1..NumGeometries} \ {{i} : i \in 1..NumGeometries}

GeneratedTopologies ==
  {Topology(names, borders) :
     names \in [1..NumGeometries -> RawLabels],
     borders \in {B \in SUBSET BorderPairs : Cardinality(B) <= MaxBorders}}

\* Four geometries with four names; Spain borders the other three.
TopologyIberia ==
  Topology(<<"Spain", "France", "Andorra", "Portugal">>,
           {{1, 2}, {1, 3}, {2, 3}, {1, 4}})

\* Two geometries carry the name France, and both border Spain and Andorra.
TopologySplit ==
  Topology(<<"France", "France", "Spain", "Andorra">>,
           {{1, 3}, {2, 3}, {1, 4}, {2, 4}, {3, 4}})

SampleTopologies == {TopologyIberia, TopologySplit}

(***************************************************************************)
(* useNeighborGame.                                                        *)
(***************************************************************************)
InitialGameState ==
  [targetCountry |-> null, foundNeighbors |-> <<>>, missedGuesses |-> <<>>,
   isHardMode |-> FALSE, gameStatus |-> "idle", score |-> 0]

\* The filter with the comparison off by one: a single neighbor is enough.
IsValidTargetAtLeastOne(nmap, country) == Len(MapGetOrEmpty(nmap, country)) > 0

\* The filter of startNewRound: only countries with more than 1 neighbor.
IsValidTarget(nmap, country) == Len(MapGetOrEmpty(nmap, country)) > 1

validTargets(nmap) == {country \in DOMAIN nmap : IsValidTarget(nmap, country)}

\* validTargets[Math.floor(Math.random() * validTargets.length)]: any element,
\* and undefined when the array is empty.
RandomTargets(nmap) ==
  IF validTargets(nmap) = {} THEN {undefined} ELSE validTargets(nmap)

\* startNewRound that also starts the score again.
startNewRoundResetsScore(gs, randomTarget) ==
  [gs EXCEPT !.targetCountry = randomTarget,
             !.foundNeighbors = <<>>,
             !.missedGuesses = <<>>,
             !.gameStatus = "playing",
             !.score = 0]

\* startNewRound that forgets to empty the missed guesses.
startNewRoundKeepsMissed(gs, randomTarget) ==
  [gs EXCEPT !.targetCountry = randomTarget,
             !.foundNeighbors = <<>>,
             !.gameStatus = "playing"]

startNewRound(gs, randomTarget) ==
  [gs EXCEPT !.targetCountry = randomTarget,
             !.foundNeighbors = <<>>,
             !.missedGuesses = <<>>,
             !.gameStatus = "playing"]

\* !gameState.targetCountry
NoTarget(gs) == gs.targetCountry \in {null, undefined, ""}

\* checkGuess with the already-recorded test folded into the branch: a neighbor
\* that is already found falls through to the missed list.
checkGuessMergedDedup(gs, nmap, guess) ==
  IF gs.gameStatus # "playing" \/ NoTarget(gs) THEN gs
  ELSE LET correctNeighbors == MapGetOrEmpty(nmap, gs.targetCountry)
       IN  IF guess \in Range(correctNeighbors) /\ guess \notin Range(gs.foundNeighbors)
           THEN LET newFound == Append(gs.foundNeighbors, guess)
                    isWin == Len(newFound) = Len(correctNeighbors)
                IN  [gs EXCEPT !.foundNeighbors = newFound,
                               !.gameStatus = IF isWin THEN "won" ELSE "playing",
                               !.score = IF isWin THEN @ + 1 ELSE @]
           ELSE IF guess \in Range(gs.missedGuesses) THEN gs
           ELSE [gs EXCEPT !.missedGuesses = Append(@, guess)]

\* checkGuess without the test of the status: only a missing target stops it.
checkGuessNoStatusGuard(gs, nmap, guess) ==
  IF NoTarget(gs) THEN gs
  ELSE LET correctNeighbors == MapGetOrEmpty(nmap, gs.targetCountry)
       IN  IF guess \in Range(gs.foundNeighbors) \/ guess \in Range(gs.missedGuesses)
           THEN gs
           ELSE IF guess \in Range(correctNeighbors)
           THEN LET newFound == Append(gs.foundNeighbors, guess)
                    isWin == Len(newFound) = Len(correctNeighbors)
                IN  [gs EXCEPT !.foundNeighbors = newFound,
                               !.gameStatus = IF isWin THEN "won" ELSE "playing",
                               !.score = IF isWin THEN @ + 1 ELSE @]
           ELSE [gs EXCEPT !.missedGuesses = Append(@, guess)]

\* checkGuess building the new found list from the list the round started
\* with (a stale copy) instead of the current one.
checkGuessStaleFound(gs, nmap, guess) ==
  IF gs.gameStatus # "playing" \/ NoTarget(gs) THEN gs
  ELSE LET correctNeighbors == MapGetOrEmpty(nmap, gs.targetCountry)
       IN  IF guess \in Range(gs.foundNeighbors) \/ guess \in Range(gs.missedGuesses)
           THEN gs
           ELSE IF guess \in Range(correctNeighbors)
           THEN LET newFound == <<guess>>
                    isWin == Len(newFound) = Len(correctNeighbors)
                IN  [gs EXCEPT !.foundNeighbors = newFound,
                               !.gameStatus = IF isWin THEN "won" ELSE "playing",
                               !.score = IF isWin THEN @ + 1 ELSE @]
           ELSE [gs EXCEPT !.missedGuesses = Append(@, guess)]

\* checkGuess with the two branches exchanged.
checkGuessBranchesSwapped(gs, nmap, guess) ==
  IF gs.gameStatus # "playing" \/ NoTarget(gs) THEN gs
  ELSE LET correctNeighbors == MapGetOrEmpty(nmap, gs.targetCountry)
       IN  IF guess \in Range(gs.foundNeighbors) \/ guess \in Range(gs.missedGuesses)
           THEN gs
           ELSE IF guess \notin Range(correctNeighbors)
           THEN LET newFound == Append(gs.foundNeighbors, guess)
                    isWin == Len(newFound) = Len(correctNeighbors)
                IN  [gs EXCEPT !.foundNeighbors = newFound,
                               !.gameStatus = IF isWin THEN "won" ELSE "playing",
                               !.score = IF isWin THEN @ + 1 ELSE @]
           ELSE [gs EXCEPT !.missedGuesses = Append(@, guess)]

checkGuess(gs, nmap, guess) ==
  IF gs.gameStatus # "playing" \/ NoTarget(gs) THEN gs
  ELSE LET correctNeighbors == MapGetOrEmpty(nmap, gs.targetCountry)
       IN  IF guess \in Range(gs.foundNeighbors) \/ guess \in Range(gs.missedGuesses)
           THEN gs
           ELSE IF guess \in Range(correctNeighbors)
           THEN LET newFound == Append(gs.foundNeighbors, guess)
                    isWin == Len(newFound) = Len(correctNeighbors)
                IN  [gs EXCEPT !.foundNeighbors = newFound,
                               !.gameStatus = IF isWin THEN "won" ELSE "playing",
                               !.score = IF isWin THEN @ + 1 ELSE @]
           ELSE [gs EXCEPT !.missedGuesses = Append(@, guess)]

\* toggleHardMode that also wipes the missed guesses of the round.
toggleHardModeClearsMissed(gs) == [gs EXCEPT !.isHardMode = ~@, !.missedGuesses = <<>>]

toggleHardMode(gs) == [gs EXCEPT !.isHardMode = ~@]

(***************************************************************************)
(* App: derived values.                                                    *)
(***************************************************************************)
\* The lookup made with the alias key of the name instead of the name.
IsGuessedByAliasKey(guessed, country) == normalizeInput(country) \in guessed

\* guessedCountries[country]
IsGuessed(guessed, country) == ToPropertyKey(country) \in guessed

guessCount == Cardinality(guessedCountries)

\* Completion reached by Give Up only.
isGameCompleteOnlyWhenEnded == gameEnded

isGameComplete == guessCount = Len(allCountries)

\* The states of the Classic game as the controls render them: Start Game
\* before the first start; after it the game is over once Give Up was pressed
\* or every country is counted.
ClassicStatus ==
  IF ~gameStarted THEN "idle"
  ELSE IF gameEnded \/ isGameComplete THEN "complete"
  ELSE "playing"

\* The text input is rendered in Classic mode between Start and the end of
\* the game, and is enabled in Neighbors mode unless the status is idle.
InputEnabled ==
  IF mode = "classic" THEN gameStarted /\ ~gameEnded
  ELSE gameState.gameStatus # "idle"

Event(op, arg) == [op |-> op, arg |-> arg]

(***************************************************************************)
(* App: the data loading effect.                                           *)
(***************************************************************************)
\* The effect with a builder that reads the geometries defensively
\* (topology.objects.countries?.geometries ?? []): a topology without the
\* collection yields an empty map, which is installed.
DataLoadedTolerant ==
  /\ loadState = "pending"
  /\ IF "error" \in DOMAIN topology
     THEN /\ loadState' = "failed"
          /\ UNCHANGED <<mapData, neighborMap>>
     ELSE /\ mapData' = <<topology>>
          /\ loadState' = "loaded"
          /\ neighborMap' = IF BuildThrows(topology) THEN <<>>
                            ELSE buildAdjacencyList(topology)
  /\ lastEvent' = Event("dataLoaded", "")
  /\ UNCHANGED <<topology, mode, guessedCountries, guessedOrder, revealedCountries,
                 input, seconds, gameStarted, gameEnded, gameState,
                 revealedByGiveUp, gaveUpThisRound>>

DataLoaded ==
  /\ loadState = "pending"
  /\ IF "error" \in DOMAIN topology
     THEN \* the promise rejects: only the catch handler runs
          /\ loadState' = "failed"
          /\ UNCHANGED <<mapData, neighborMap>>
     ELSE /\ mapData' = <<topology>>
          /\ IF BuildThrows(topology)
             THEN /\ loadState' = "failed"
                  /\ UNCHANGED neighborMap
             ELSE /\ loadState' = "loaded"
                  /\ neighborMap' = buildAdjacencyList(topology)
  /\ lastEvent' = Event("dataLoaded", "")
  /\ UNCHANGED <<topology, mode, guessedCountries, guessedOrder, revealedCountries,
                 input, seconds, gameStarted, gameEnded, gameState,
                 revealedByGiveUp, gaveUpThisRound>>

(***************************************************************************)
(* App: the handlers.                                                      *)
(***************************************************************************)
\* handleInputChange without the setInput('') of the Neighbors branch.
HandleInputChangeKeepsNeighborsText(value) ==
  /\ InputEnabled
  /\ LET resolved == resolveCountry(value)
     IN  IF resolved = null
         THEN /\ input' = value
              /\ UNCHANGED <<guessedCountries, guessedOrder, gameState>>
         ELSE IF mode = "classic"
         THEN IF ~IsGuessed(guessedCountries, resolved)
              THEN /\ guessedCountries' = guessedCountries \cup {ToPropertyKey(resolved)}
                   /\ guessedOrder' = Append(guessedOrder, resolved)
                   /\ input' = ""
                   /\ UNCHANGED gameState
              ELSE /\ input' = value
                   /\ UNCHANGED <<guessedCountries, guessedOrder, gameState>>
         ELSE /\ gameState' = checkGuess(gameState, neighborMap, resolved)
              /\ input' = value
              /\ UNCHANGED <<guessedCountries, guessedOrder>>
  /\ lastEvent' = Event("handleInputChange", value)
  /\ UNCHANGED <<topology, loadState, mapData, neighborMap, mode, revealedCountries,
                 seconds, gameStarted, gameEnded, revealedByGiveUp, gaveUpThisRound>>

HandleInputChange(value) ==
  /\ InputEnabled
  /\ LET resolved == resolveCountry(value)
     IN  IF resolved = null
         THEN /\ input' = value
              /\ UNCHANGED <<guessedCountries, guessedOrder, gameState>>
         ELSE IF mode = "classic"
         THEN IF ~IsGuessed(guessedCountries, resolved)
              THEN /\ guessedCountries' = guessedCountries \cup {ToPropertyKey(resolved)}
                   /\ guessedOrder' = Append(guessedOrder, resolved)
                   /\ input' = ""
                   /\ UNCHANGED gameState
              ELSE /\ input' = value
                   /\ UNCHANGED <<guessedCountries, guessedOrder, gameState>>
         ELSE /\ gameState' = checkGuess(gameState, neighborMap, resolved)
              /\ input' = ""
              /\ UNCHANGED <<guessedCountries, guessedOrder>>
  /\ lastEvent' = Event("handleInputChange", value)
  /\ UNCHANGED <<topology, loadState, mapData, neighborMap, mode, revealedCountries,
                 seconds, gameStarted, gameEnded, revealedByGiveUp, gaveUpThisRound>>

\* The timer effect with the test of completion left out.
TimerRunningIgnoresCompletion ==
  mode = "classic" /\ gameStarted /\ Len(revealedCountries) = 0

\* The timer effect installs its interval unless it returns early.
TimerRunning ==
  /\ mode = "classic"
  /\ gameStarted
  /\ ~isGameComplete
  /\ Len(revealedCountries) = 0

\* The interval callback of the timer effect.
Tick ==
  /\ TimerRunning
  /\ seconds < MaxSeconds
  /\ seconds' = seconds + 1
  /\ lastEvent' = Event("tick", "")
  /\ UNCHANGED <<topology, loadState, mapData, neighborMap, mode, guessedCountries,
                 guessedOrder, revealedCountries, input, gameStarted, gameEnded,
                 gameState, revealedByGiveUp, gaveUpThisRound>>

HandleStartGame ==
  /\ mode = "classic"
  /\ ~gameStarted \/ gameEnded
  /\ guessedCountries' = {}
  /\ guessedOrder' = <<>>
  /\ revealedCountries' = <<>>
  /\ input' = ""
  /\ seconds' = 0
  /\ gameStarted' = TRUE
  /\ gameEnded' = FALSE
  /\ lastEvent' = Event("handleStartGame", "")
  /\ UNCHANGED <<topology, loadState, mapData, neighborMap, mode, gameState,
                 revealedByGiveUp, gaveUpThisRound>>

\* handleGiveUp appending the whole country list to the display order
\* instead of the countries that remain.
HandleGiveUpAppendsAll ==
  /\ mode = "classic"
  /\ gameStarted /\ ~gameEnded
  /\ LET remaining == SelectSeq(allCountries,
                                LAMBDA country : ~IsGuessed(guessedCountries, country))
     IN  /\ revealedCountries' = remaining
         /\ guessedOrder' = guessedOrder \o allCountries
         /\ guessedCountries' = guessedCountries \cup Range(remaining)
  /\ gameEnded' = TRUE
  /\ lastEvent' = Event("handleGiveUp", "")
  /\ UNCHANGED <<topology, loadState, mapData, neighborMap, mode, input, seconds,
                 gameStarted, gameState, revealedByGiveUp, gaveUpThisRound>>

HandleGiveUp ==
  /\ mode = "classic"
  /\ gameStarted /\ ~gameEnded
  /\ LET remaining == SelectSeq(allCountries,
                                LAMBDA country : ~IsGuessed(guessedCountries, country))
     IN  /\ revealedCountries' = remaining
         /\ guessedOrder' = guessedOrder \o remaining
         /\ guessedCountries' = guessedCountries \cup Range(remaining)
  /\ gameEnded' = TRUE
  /\ lastEvent' = Event("handleGiveUp", "")
  /\ UNCHANGED <<topology, loadState, mapData, neighborMap, mode, input, seconds,
                 gameStarted, gameState, revealedByGiveUp, gaveUpThisRound>>

\* The mode button with a restart of the Classic clock.
ToggleModeRestartsClock ==
  /\ mode' = IF mode = "classic" THEN "neighbors" ELSE "classic"
  /\ input' = ""
  /\ seconds' = 0
  /\ lastEvent' = Event("toggleMode", "")
  /\ UNCHANGED <<topology, loadState, mapData, neighborMap, guessedCountries,
                 guessedOrder, revealedCountries, gameStarted, gameEnded,
                 gameState, revealedByGiveUp, gaveUpThisRound>>

ToggleMode ==
  /\ mode' = IF mode = "classic" THEN "neighbors" ELSE "classic"
  /\ input' = ""
  /\ lastEvent' = Event("toggleMode", "")
  /\ UNCHANGED <<topology, loadState, mapData, neighborMap, guessedCountries,
                 guessedOrder, revealedCountries, seconds, gameStarted, gameEnded,
                 gameState, revealedByGiveUp, gaveUpThisRound>>

\* The Start Game / Skip / Next button.
StartNewRound ==
  /\ mode = "neighbors"
  /\ gameState.score < MaxScore
  /\ \E randomTarget \in RandomTargets(neighborMap) :
       gameState' = startNewRound(gameState, randomTarget)
  /\ revealedByGiveUp' = <<>>
  /\ gaveUpThisRound' = FALSE
  /\ input' = ""
  /\ lastEvent' = Event("startNewRound", "")
  /\ UNCHANGED <<topology, loadState, mapData, neighborMap, mode, guessedCountries,
                 guessedOrder, revealedCountries, seconds, gameStarted, gameEnded>>

\* The Hard Mode button.
ToggleHardMode ==
  /\ mode = "neighbors"
  /\ gameState' = toggleHardMode(gameState)
  /\ lastEvent' = Event("toggleHardMode", "")
  /\ UNCHANGED <<topology, loadState, mapData, neighborMap, mode, guessedCountries,
                 guessedOrder, revealedCountries, input, seconds, gameStarted,
                 gameEnded, revealedByGiveUp, gaveUpThisRound>>

\* The Give Up button of Neighbors mode.
NeighborsGiveUp ==
  /\ mode = "neighbors"
  /\ gameState.gameStatus # "idle"
  /\ LET allNeighbors ==
           MapGetOrEmpty(neighborMap,
                         IF NoTarget(gameState) THEN "" ELSE gameState.targetCountry)
     IN  revealedByGiveUp' =
           SelectSeq(allNeighbors, LAMBDA n : n \notin Range(gameState.foundNeighbors))
  /\ gaveUpThisRound' = TRUE
  /\ input' = ""
  /\ lastEvent' = Event("neighborsGiveUp", "")
  /\ UNCHANGED <<topology, loadState, mapData, neighborMap, mode, guessedCountries,
                 guessedOrder, revealedCountries, seconds, gameStarted, gameEnded,
                 gameState>>

(***************************************************************************)
(* Specifications.                                                         *)
(***************************************************************************)
\* The state after the first render, for a resource that is one of `resources`;
\* with startMode "neighbors", the state after one click on the mode button.
InitApp(resources, startMode) ==
  /\ topology \in resources
  /\ loadState = "pending"
  /\ mapData = <<>>
  /\ neighborMap = <<>>
  /\ mode = startMode
  /\ guessedCountries = {}
  /\ guessedOrder = <<>>
  /\ revealedCountries = <<>>
  /\ input = ""
  /\ seconds = 0
  /\ gameStarted = FALSE
  /\ gameEnded = FALSE
  /\ gameState = InitialGameState
  /\ revealedByGiveUp = <<>>
  /\ gaveUpThisRound = FALSE
  /\ lastEvent = Event(IF startMode = "classic" THEN "render" ELSE "toggleMode", "")

\* Only the data loading effect runs, for every generated topology.
InitBuild == InitApp(GeneratedTopologies \cup {MalformedTopology, FetchError}, "classic")

NextBuild == DataLoaded

SpecBuild == InitBuild /\ [][NextBuild]_vars

(***************************************************************************)
(* Claims about the adjacency builder (checked under SpecBuild).           *)
(***************************************************************************)
\* C1: if B is in the neighbor list stored under A, then A is in the neighbor
\* list stored under B, also when several geometries carry the same name.
C1_AdjacencySymmetric ==
  loadState = "loaded" =>
    \A A \in DOMAIN neighborMap :
      \A B \in Range(neighborMap[A]) :
        B \in DOMAIN neighborMap /\ A \in Range(neighborMap[B])

\* C2: no identifier occurs twice in the neighbor list of any key.
C2_NeighborListsDuplicateFree ==
  loadState = "loaded" =>
    \A A \in DOMAIN neighborMap :
      Cardinality(Range(neighborMap[A])) = Len(neighborMap[A])

\* C3: every key and every listed neighbor of the built map is a member of
\* the canonical country list.
C3_AdjacencyIsCanonical ==
  loadState = "loaded" =>
    \A A \in DOMAIN neighborMap :
      A \in CanonicalCountries /\ Range(neighborMap[A]) \subseteq CanonicalCountries

(***************************************************************************)
(* Each game on its own: a session played in Classic mode, or one played   *)
(* in Neighbors mode (the mode button was clicked once, before anything    *)
(* else).  The resource loads at any moment, or never.                     *)
(***************************************************************************)
ClassicTexts == {"spain", "France", "U.S.A", "constructor"}

NeighborTexts == {"spain", "France", "ANDORRA", "portugal", "U.S.A"}

TypedTexts == IF mode = "classic" THEN ClassicTexts ELSE NeighborTexts

InitGames ==
  \/ InitApp({TopologyIberia}, "classic")
  \/ InitApp(SampleTopologies \cup {MalformedTopology, FetchError}, "neighbors")

NextGames ==
  \/ DataLoaded
  \/ HandleStartGame
  \/ \E value \in TypedTexts : HandleInputChange(value)
  \/ Tick
  \/ HandleGiveUp
  \/ StartNewRound
  \/ ToggleHardMode
  \/ NeighborsGiveUp

SpecGames == InitGames /\ [][NextGames]_vars

(***************************************************************************)
(* Claims about the resolver and the two games (checked under SpecGames).  *)
(***************************************************************************)
\* The guess a typed text resolves to.
GuessOf(value) == resolveCountry(value)

Found == gameState.foundNeighbors

Missed == gameState.missedGuesses

TargetNeighbors == MapGetOrEmpty(neighborMap, gameState.targetCountry)

\* C5: resolve returns NotFound or a canonical country, and a country only
\* for a key registered in the build phase; so every identifier in the Classic
\* found set is canonical and the found-count never exceeds the canonical count.
C5_ResolveIsCanonical ==
  /\ lastEvent.op = "handleInputChange" =>
       /\ GuessOf(lastEvent.arg) \in CanonicalCountries \cup {null}
       /\ GuessOf(lastEvent.arg) # null =>
            normalizeInput(lastEvent.arg) \in DOMAIN countryAliases
  /\ Range(guessedOrder) \subseteq CanonicalCountries
  /\ guessedCountries \subseteq CanonicalCountries
  /\ guessCount <= Len(allCountries)

\* C6: an active target has at least two neighbors in the adjacency map, and
\* a round started while no key has two neighbors has no active target.
C6_TargetHasTwoNeighbors ==
  /\ ~NoTarget(gameState) =>
       /\ gameState.targetCountry \in DOMAIN neighborMap
       /\ Len(neighborMap[gameState.targetCountry]) >= 2
  /\ (lastEvent.op = "startNewRound" /\ validTargets(neighborMap) = {}) =>
       NoTarget(gameState)

\* A round has just been started on a target with exactly two neighbors.
C6_Witness ==
  /\ lastEvent.op = "startNewRound"
  /\ ~NoTarget(gameState)
  /\ Len(TargetNeighbors) = 2

\* A Neighbors input step that hands a not yet recorded guess to checkGuess
\* while a round with an active target is being played.
FreshGuessStep(value) ==
  /\ mode = "neighbors"
  /\ lastEvent' = Event("handleInputChange", value)
  /\ HandleInputChange(value)
  /\ gameState.gameStatus = "playing"
  /\ ~NoTarget(gameState)
  /\ GuessOf(value) # null
  /\ GuessOf(value) \notin Range(Found) \cup Range(Missed)

\* C7: a fresh guess in the target's neighbor set is added to found, any other
\* is added to missed; the guess that makes found cover all of the target's
\* neighbors sets the status to won and adds exactly 1 to the score.
C7_GuessOutcome ==
  [][\A value \in NeighborTexts :
       FreshGuessStep(value) =>
         /\ GuessOf(value) \in Range(TargetNeighbors) =>
              /\ gameState'.foundNeighbors = Append(Found, GuessOf(value))
              /\ gameState'.missedGuesses = Missed
         /\ GuessOf(value) \notin Range(TargetNeighbors) =>
              /\ gameState'.missedGuesses = Append(Missed, GuessOf(value))
              /\ gameState'.foundNeighbors = Found
         /\ Range(gameState'.foundNeighbors) = Range(TargetNeighbors) =>
              /\ gameState'.gameStatus = "won"
              /\ gameState'.score = gameState.score + 1
         /\ Range(gameState'.foundNeighbors) # Range(TargetNeighbors) =>
              /\ gameState'.gameStatus = "playing"
              /\ gameState'.score = gameState.score]_vars

\* C8: no identifier is in both foundNeighbors and missedGuesses.
C8_FoundMissedDisjoint == Range(Found) \cap Range(Missed) = {}

\* A round in which a neighbor was found and another guess was missed.
C8_Witness == Found # <<>> /\ Missed # <<>>

\* C9: a guess leaves the whole Neighbors state unchanged when the status is
\* not playing, when there is no active target, or when the guess is already
\* in found or in missed.
C9_GuessNoOp ==
  [][\A value \in NeighborTexts :
       ( /\ mode = "neighbors"
         /\ lastEvent' = Event("handleInputChange", value)
         /\ HandleInputChange(value)
         /\ GuessOf(value) # null
         /\ \/ gameState.gameStatus # "playing"
            \/ NoTarget(gameState)
            \/ GuessOf(value) \in Range(Found) \cup Range(Missed) )
       => gameState' = gameState]_vars

\* A guess was handled after the round was won: it is in neither list.
C9_Witness ==
  /\ mode = "neighbors"
  /\ lastEvent.op = "handleInputChange"
  /\ GuessOf(lastEvent.arg) # null
  /\ gameState.gameStatus = "won"
  /\ GuessOf(lastEvent.arg) \notin Range(Found) \cup Range(Missed)

\* C10: in both modes a guess of a country that is already found leaves the
\* found set, its size and its order unchanged.
C10_RepeatedGuessIgnored ==
  [][\A value \in ClassicTexts \cup NeighborTexts :
       ( /\ lastEvent' = Event("handleInputChange", value)
         /\ HandleInputChange(value)
         /\ GuessOf(value) # null ) =>
         /\ (mode = "classic" /\ GuessOf(value) \in Range(guessedOrder)) =>
              /\ guessedOrder' = guessedOrder
              /\ guessedCountries' = guessedCountries
         /\ (mode = "neighbors" /\ GuessOf(value) \in Range(Found)) =>
              gameState'.foundNeighbors = Found]_vars

\* A country already found in Classic mode was typed again: the text stays
\* in the input and the list holds the country once.
C10_Witness ==
  /\ mode = "classic"
  /\ lastEvent.op = "handleInputChange"
  /\ GuessOf(lastEvent.arg) \in Range(guessedOrder)
  /\ input = lastEvent.arg
  /\ Len(guessedOrder) = Cardinality(Range(guessedOrder))

(***************************************************************************)
(* The resolver on its own: one text is typed into a Classic game that has *)
(* just been started.  The texts are the canonical names, the curated      *)
(* aliases and the spellings "USA", "U.S.A" and "America", each with its   *)
(* variants in letter case, whitespace and hyphens.                        *)
(***************************************************************************)
UpperChar(c) ==
  IF \E i \in 1..Len(LowerCaseLetters) : CharAt(LowerCaseLetters, i) = c
  THEN CharAt(UpperCaseLetters,
              CHOOSE i \in 1..Len(LowerCaseLetters) : CharAt(LowerCaseLetters, i) = c)
  ELSE c

RECURSIVE toUpperCase(_)
toUpperCase(s) ==
  IF s = "" THEN "" ELSE UpperChar(CharAt(s, 1)) \o toUpperCase(Tail(s))

InsertAt(s, i, c) == SubSeq(s, 1, i) \o c \o SubSeq(s, i + 1, Len(s))

DeleteAt(s, i) == SubSeq(s, 1, i - 1) \o SubSeq(s, i + 1, Len(s))

\* The spellings of s that differ from it only in letter case (all upper, all
\* lower), in one inserted blank, tab or hyphen, or in one deleted blank or
\* hyphen.
Variants(s) ==
  {s, toUpperCase(s), toLowerCase(s)}
    \cup {InsertAt(s, i, c) : i \in 0..Len(s), c \in {" ", "\t", "-"}}
    \cup {DeleteAt(s, i) : i \in {j \in 1..Len(s) : CharAt(s, j) \in {" ", "-"}}}

\* The alias strings of the country at index n: its canonical name and the
\* curated abbreviations and alternate names.
SupportedAliasStrings(n) == {allCountries[n]} \cup Range(ExtraAliases(allCountries[n]))

\* The spellings the specification lists as supported aliases.
ListedAliasStrings(n) ==
  IF allCountries[n] = "United States of America"
  THEN {"USA", "usa", "U.S.A", "America"}
  ELSE {}

SupportedVariants ==
  [n \in 1..Len(allCountries) |-> UNION {Variants(s) : s \in SupportedAliasStrings(n)}]

ListedVariants ==
  [n \in 1..Len(allCountries) |-> UNION {Variants(s) : s \in ListedAliasStrings(n)}]

ResolveTexts ==
  UNION {SupportedVariants[n] \cup ListedVariants[n] : n \in 1..Len(allCountries)}

\* The state after Start Game in a fresh session.
InitResolve ==
  /\ topology = TopologyIberia
  /\ loadState = "pending"
  /\ mapData = <<>>
  /\ neighborMap = <<>>
  /\ mode = "classic"
  /\ guessedCountries = {}
  /\ guessedOrder = <<>>
  /\ revealedCountries = <<>>
  /\ input = ""
  /\ seconds = 0
  /\ gameStarted = TRUE
  /\ gameEnded = FALSE
  /\ gameState = InitialGameState
  /\ revealedByGiveUp = <<>>
  /\ gaveUpThisRound = FALSE
  /\ lastEvent = Event("handleStartGame", "")

\* A text is typed while nothing has been found yet.
TypeFirstText ==
  /\ guessedOrder = <<>>
  /\ \E value \in ResolveTexts : HandleInputChange(value)

NextResolve == TypeFirstText

SpecResolve == InitResolve /\ [][NextResolve]_vars

\* The country the text typed last was resolved to, null if it was not.
ResolvedLast == IF guessedOrder = <<>> THEN null ELSE guessedOrder[1]

\* C4 as stated: every listed or registered alias string of a country, in
\* every variant of letter case, whitespace and hyphens, resolves to what the
\* literal canonical name resolves to, which is the country itself.
C4_ListedAliasesResolve ==
  lastEvent.op = "handleInputChange" =>
    \A n \in 1..Len(allCountries) :
      lastEvent.arg \in SupportedVariants[n] \cup ListedVariants[n] =>
        /\ ResolvedLast = allCountries[n]
        /\ resolveCountry(allCountries[n]) = allCountries[n]

\* C4 as amended: the same for the registered alias strings alone (the
\* canonical names and the curated aliases); "U.S.A" is not one of them.
C4_RegisteredAliasesResolve ==
  lastEvent.op = "handleInputChange" =>
    \A n \in 1..Len(allCountries) :
      lastEvent.arg \in SupportedVariants[n] =>
        /\ ResolvedLast = allCountries[n]
        /\ resolveCountry(allCountries[n]) = allCountries[n]

\* "U S A", "u-sa", "USA", ...: a variant of the alias usa that is not a key
\* of the table was typed and United States of America was found.
C4_Witness ==
  /\ lastEvent.op = "handleInputChange"
  /\ lastEvent.arg \in Variants("usa") \ DOMAIN countryAliases
  /\ guessedOrder = <<"United States of America">>

(***************************************************************************)
(* The whole App: one session in which the mode button is used freely.     *)
(***************************************************************************)
AppTexts == {"spain", "France", "U.S.A"}

InitApplication == InitApp({TopologyIberia, FetchError}, "classic")

NextApp ==
  \/ DataLoaded
  \/ ToggleMode
  \/ HandleStartGame
  \/ \E value \in AppTexts : HandleInputChange(value)
  \/ Tick
  \/ HandleGiveUp
  \/ StartNewRound
  \/ ToggleHardMode
  \/ NeighborsGiveUp

SpecApp == InitApplication /\ [][NextApp]_vars

\* C11: in every step the score stays or grows by exactly 1, and it grows only
\* in a step that takes the status from playing to won.
C11_ScoreMonotone ==
  [][/\ gameState'.score \in {gameState.score, gameState.score + 1}
     /\ gameState'.score # gameState.score =>
          /\ gameState.gameStatus = "playing"
          /\ gameState'.gameStatus = "won"]_vars

\* A new round was started, or the mode was switched, with a point scored.
C11_Witness ==
  /\ gameState.score = 1
  /\ lastEvent.op \in {"startNewRound", "toggleMode"}
  /\ gameState.gameStatus = "playing"

(***************************************************************************)
(* The end of a Classic game: a session that is either fresh or has been   *)
(* started and has found, in list order, all countries but the last        *)
(* NumRemaining.                                                           *)
(***************************************************************************)
NumRemaining == 3

FoundSoFar == SubSeq(allCountries, 1, Len(allCountries) - NumRemaining)

RemainingNames ==
  {allCountries[n] : n \in (Len(allCountries) - NumRemaining + 1)..Len(allCountries)}

EndTexts == RemainingNames \cup {"Afghanistan", "U.S.A"}

InitClassicEnd ==
  \/ InitApp({TopologyIberia}, "classic")
  \/ /\ topology = TopologyIberia
     /\ loadState = "pending"
     /\ mapData = <<>>
     /\ neighborMap = <<>>
     /\ mode = "classic"
     /\ guessedCountries = Range(FoundSoFar)
     /\ guessedOrder = FoundSoFar
     /\ revealedCountries = <<>>
     /\ input = ""
     /\ seconds = 0
     /\ gameStarted = TRUE
     /\ gameEnded = FALSE
     /\ gameState = InitialGameState
     /\ revealedByGiveUp = <<>>
     /\ gaveUpThisRound = FALSE
     /\ lastEvent = Event("handleInputChange", FoundSoFar[Len(FoundSoFar)])

NextClassicEnd ==
  \/ HandleStartGame
  \/ \E value \in EndTexts : HandleInputChange(value)
  \/ Tick
  \/ HandleGiveUp

SpecClassicEnd == InitClassicEnd /\ [][NextClassicEnd]_vars

\* C12: once every canonical name has been guessed in a started game, with
\* nothing revealed by a give-up, the game is complete, the count equals the
\* number of canonical countries and each is listed once; the step of the last
\* guess itself brings this about, with Give Up not pressed.
C12_AllGuessedCompletes ==
  /\ (gameStarted /\ revealedCountries = <<>>
        /\ Range(guessedOrder) = CanonicalCountries) =>
       /\ isGameComplete
       /\ ClassicStatus = "complete"
       /\ guessCount = Len(allCountries)
       /\ Len(guessedOrder) = Len(allCountries)
       /\ ~TimerRunning
  /\ (lastEvent.op = "handleInputChange" /\ ~gameEnded
        /\ Range(guessedOrder) = CanonicalCountries) =>
       /\ ClassicStatus = "complete"
       /\ revealedCountries = <<>>

\* The last name was typed, it was not the last of the list, and Give Up was
\* not pressed.
C12_Witness ==
  /\ lastEvent.op = "handleInputChange"
  /\ Range(guessedOrder) = CanonicalCountries
  /\ guessedOrder[Len(guessedOrder)] # allCountries[Len(allCountries)]
  /\ lastEvent.arg = guessedOrder[Len(guessedOrder)]
  /\ ~gameEnded
  /\ guessCount = Len(allCountries)

(***************************************************************************)
(* Claims about the two games, continued (checked under SpecGames).        *)
(***************************************************************************)
\* The countries the player found, without those a give-up appended.
PlayerFound == SubSeq(guessedOrder, 1, Len(guessedOrder) - Len(revealedCountries))

\* C13: after Give Up in a Classic game being played the game is complete,
\* the revealed countries are exactly the canonical countries the player had
\* not found, every canonical country is in the guessed display and the count
\* equals the number of canonical countries.
C13_GiveUpRevealsTheRest ==
  lastEvent.op = "handleGiveUp" =>
    /\ ClassicStatus = "complete"
    /\ gameEnded
    /\ Range(revealedCountries) = CanonicalCountries \ Range(PlayerFound)
    /\ Range(revealedCountries) \cap Range(PlayerFound) = {}
    /\ CanonicalCountries \subseteq Range(guessedOrder)
    /\ \A country \in CanonicalCountries : IsGuessed(guessedCountries, country)
    /\ guessCount = Len(allCountries)

\* C14: as long as the adjacency map has not been built from the fetched
\* topology (the fetch is pending, or the fetch or the build has failed), no
\* click on Start Game / Skip / Next puts the Neighbors game into playing.
C14_NotPlayableBeforeLoad ==
  [][(StartNewRound /\ loadState # "loaded") =>
       gameState'.gameStatus # "playing"]_vars

(***************************************************************************)
(* Claims about the adjacency builder, continued (checked under SpecBuild).*)
(***************************************************************************)
\* The fetched topology has no objects.countries collection.
LacksGeometries == "error" \notin DOMAIN topology /\ BuildThrows(topology)

\* C15: when the topology lacks the geometry collection the build ends in an
\* error (the catch handler runs) and the neighbor map keeps the value it had
\* before the build was attempted.
C15_MalformedBuildInstallsNothing ==
  [][(DataLoaded /\ LacksGeometries) =>
       /\ loadState' = "failed"
       /\ neighborMap' = neighborMap]_vars

\* The malformed topology was fetched and stored, and the build failed.
C15_Witness ==
  /\ LacksGeometries
  /\ lastEvent.op = "dataLoaded"
  /\ mapData = <<topology>>
  /\ loadState = "failed"
  /\ neighborMap = <<>>

(***************************************************************************)
(* Claims about the input handler (checked under SpecGames).               *)
(***************************************************************************)
\* The step in which the input handler runs on the text value.
InputStep(value) ==
  /\ lastEvent' = Event("handleInputChange", value)
  /\ HandleInputChange(value)

\* The guess was handed to the game of the active mode: Classic lists the
\* country; Neighbors, when a round with a target is being played, has it in
\* found or in missed.
Forwarded(value) ==
  IF mode = "classic" THEN GuessOf(value) \in Range(guessedOrder')
  ELSE (gameState.gameStatus = "playing" /\ ~NoTarget(gameState)) =>
         GuessOf(value) \in Range(gameState'.foundNeighbors)
                              \cup Range(gameState'.missedGuesses)

\* The text is kept and no guess is recorded.
TextKept(value) ==
  /\ input' = value
  /\ UNCHANGED <<guessedCountries, guessedOrder, gameState>>

\* C16 as stated: whenever the text resolves to a canonical country, in either
\* mode, the input is cleared and the country is forwarded to the guess of the
\* active mode; when the text does not resolve, nothing is recorded and the
\* text is kept.
C16_ResolvedInputCleared ==
  [][\A value \in ClassicTexts \cup NeighborTexts :
       InputStep(value) =>
         /\ GuessOf(value) \in CanonicalCountries =>
              input' = "" /\ Forwarded(value)
         /\ GuessOf(value) = null => TextKept(value)]_vars

\* C16 as amended: the same, except that in Classic mode a text resolving to a
\* country that is already found is kept in the input and records nothing.
C16_ResolvedInputClearedUnlessRepeated ==
  [][\A value \in ClassicTexts \cup NeighborTexts :
       InputStep(value) =>
         /\ GuessOf(value) \in CanonicalCountries =>
              IF mode = "classic" /\ IsGuessed(guessedCountries, GuessOf(value))
              THEN TextKept(value)
              ELSE input' = "" /\ Forwarded(value)
         /\ GuessOf(value) = null => TextKept(value)]_vars

\* In Classic mode the name of a found country was typed again and is still in
\* the input.
C16_Witness ==
  /\ mode = "classic"
  /\ lastEvent.op = "handleInputChange"
  /\ input = lastEvent.arg
  /\ input # ""
  /\ GuessOf(input) \in CanonicalCountries
  /\ IsGuessed(guessedCountries, GuessOf(input))

(***************************************************************************)
(* Claims about the Neighbors controls (checked under SpecGames).          *)
(***************************************************************************)
\* C17: in Neighbors mode the Start Game / Skip / Next button can be used in
\* each of the states idle, playing and won (below the score at which the
\* model stops), and using it gives status playing with found and missed
\* empty, the score and the hard-mode flag as they were.
C17_StartRoundFromAnyState ==
  /\ [](( /\ mode = "neighbors"
          /\ gameState.gameStatus \in {"idle", "playing", "won"}
          /\ gameState.score < MaxScore ) => ENABLED StartNewRound)
  /\ [][StartNewRound =>
          /\ gameState'.gameStatus = "playing"
          /\ gameState'.foundNeighbors = <<>>
          /\ gameState'.missedGuesses = <<>>
          /\ gameState'.score = gameState.score
          /\ gameState'.isHardMode = gameState.isHardMode]_vars

\* Next was clicked after a won round played in hard mode: the point and the
\* flag are kept and the lists are empty.
C17_Witness ==
  /\ lastEvent.op = "startNewRound"
  /\ gameState.score = 1
  /\ gameState.isHardMode
  /\ gameState.gameStatus = "playing"
  /\ Found = <<>> /\ Missed = <<>>
  /\ ~NoTarget(gameState)

\* The fields of the Neighbors game other than the hard-mode flag.
RoundFields(gs) ==
  <<gs.targetCountry, gs.foundNeighbors, gs.missedGuesses, gs.gameStatus, gs.score>>

\* C18: the Hard Mode button flips the flag and leaves target, found, missed,
\* status and score as they were; and in every reachable state a guess or a
\* new round gives the same target, found, missed, status and score whether
\* or not the flag is toggled first, so toggles interleaved in a sequence of
\* rounds and guesses do not change its result.
C18_HardModeOnlyFlipsFlag ==
  /\ [][ToggleHardMode =>
          /\ RoundFields(gameState') = RoundFields(gameState)
          /\ gameState'.isHardMode = ~gameState.isHardMode]_vars
  /\ [](mode = "neighbors" =>
          /\ \A value \in NeighborTexts :
               GuessOf(value) # null =>
                 RoundFields(checkGuess(toggleHardMode(gameState), neighborMap,
                                        GuessOf(value)))
                   = RoundFields(checkGuess(gameState, neighborMap, GuessOf(value)))
          /\ \A randomTarget \in RandomTargets(neighborMap) :
               RoundFields(startNewRound(toggleHardMode(gameState), randomTarget))
                 = RoundFields(startNewRound(gameState, randomTarget)))

\* Hard mode was switched on in the middle of a round that has a found
\* neighbor and a missed guess.
C18_Witness ==
  /\ lastEvent.op = "toggleHardMode"
  /\ gameState.isHardMode
  /\ gameState.gameStatus = "playing"
  /\ Found # <<>>
  /\ Missed # <<>>

(***************************************************************************)
(* Claims about the two games in one session (checked under SpecApp).      *)
(***************************************************************************)
\* A guess made in one mode leaves the game of the other mode alone, and the
\* mode button leaves both games and the seconds counter alone.
GamesIndependent ==
  /\ \A value \in AppTexts :
       InputStep(value) =>
         /\ mode = "classic" => RoundFields(gameState') = RoundFields(gameState)
         /\ mode = "neighbors" =>
              UNCHANGED <<guessedCountries, guessedOrder, revealedCountries,
                          gameStarted, gameEnded>>
  /\ ToggleMode =>
       /\ UNCHANGED <<guessedCountries, guessedOrder, revealedCountries,
                      gameStarted, gameEnded, gameState, seconds>>

\* C19 as stated: the two games are independent, and switching the mode does
\* not change the progress of the Classic clock: it runs after the switch if
\* and only if it ran before.
C19_ModesIndependent ==
  [][/\ GamesIndependent
     /\ ToggleMode => (TimerRunning' <=> TimerRunning)]_vars

\* C19 as amended: the two games are independent and switching the mode
\* leaves the seconds counter as it is; the Classic clock is paused while the
\* mode is neighbors (no step taken there changes the counter) and, after the
\* switch back to classic, runs exactly when the Classic game is being played.
C19_ModesIndependentClockPaused ==
  [][/\ GamesIndependent
     /\ mode = "neighbors" => seconds' = seconds
     /\ ToggleMode =>
          /\ mode' = "neighbors" => ~TimerRunning'
          /\ mode' = "classic" => (TimerRunning' <=> ClassicStatus = "playing")]_vars

\* The mode was switched back to classic with both games in progress and
\* time already counted: the clock runs again.
C19_Witness ==
  /\ lastEvent.op = "toggleMode"
  /\ mode = "classic"
  /\ seconds >= 1
  /\ guessedOrder # <<>>
  /\ gameState.gameStatus = "playing"
  /\ Found # <<>>
  /\ TimerRunning

(***************************************************************************)
(* Claims about the Classic clock (checked under SpecClassicEnd).          *)
(***************************************************************************)
\* C20: the seconds counter grows (by one) only in a state where the game is
\* started, the count is below the number of canonical countries and no
\* country has been revealed by a give-up; in every other state no tick can
\* happen.
C20_ClockPausesWhenOver ==
  /\ [][seconds' > seconds =>
          /\ seconds' = seconds + 1
          /\ gameStarted
          /\ guessCount # Len(allCountries)
          /\ Len(revealedCountries) = 0]_vars
  /\ []((~gameStarted \/ guessCount = Len(allCountries)
           \/ Len(revealedCountries) > 0) => ~ENABLED Tick)

\* Every country was found by the player after at least one second, nothing
\* was revealed: the game is complete and the clock has stopped below the
\* bound of the model.
C20_Witness ==
  /\ gameStarted
  /\ ~gameEnded
  /\ guessCount = Len(allCountries)
  /\ revealedCountries = <<>>
  /\ seconds = 1

(***************************************************************************)
(* Claims about the built map, continued (checked under SpecBuild).        *)
(***************************************************************************)
\* The geometries of the fetched topology and the names the builder gives them.
Geometries == topology.objects.countries.geometries

NameOf(i) == normalizeName(Geometries[i].properties.name)

SharesBoundary(i, j) == i # j /\ Geometries[i].arcs \cap Geometries[j].arcs # {}

\* The names of the geometries that border a geometry named A and are not
\* themselves named A.
BorderingNames(A) ==
  {NameOf(j) : j \in {k \in 1..Len(Geometries) :
                        /\ NameOf(k) # A
                        /\ \E i \in 1..Len(Geometries) :
                             NameOf(i) = A /\ SharesBoundary(i, k)}}

\* C21: no key of the built map occurs in its own neighbor list, also when
\* geometries of the same name border one another.
C21_NoSelfNeighbor ==
  loadState = "loaded" =>
    \A A \in DOMAIN neighborMap : A \notin Range(neighborMap[A])

\* Two geometries of one name border each other, and the name is a key.
C21_Witness ==
  /\ loadState = "loaded"
  /\ \E i, j \in 1..Len(Geometries) :
       /\ SharesBoundary(i, j)
       /\ NameOf(i) = NameOf(j)
       /\ NameOf(i) \in DOMAIN neighborMap

\* C22: every key of the built map has a non-empty list, and a name that no
\* geometry of another name borders is not a key.
C22_NoEmptyLists ==
  loadState = "loaded" =>
    /\ \A A \in DOMAIN neighborMap : Len(neighborMap[A]) > 0
    /\ \A i \in 1..Len(Geometries) :
         BorderingNames(NameOf(i)) = {} => NameOf(i) \notin DOMAIN neighborMap

\* A geometry borders only a geometry of its own name, its name is not a key,
\* and the map has other keys.
C22_Witness ==
  /\ loadState = "loaded"
  /\ neighborMap # <<>>
  /\ \E i, j \in 1..Len(Geometries) :
       /\ SharesBoundary(i, j)
       /\ BorderingNames(NameOf(i)) = {}
       /\ NameOf(i) \notin DOMAIN neighborMap

\* C23: the list stored under a name A is, as a set, the set of the names of
\* the geometries bordering some geometry named A (A itself left out), for
\* one or several geometries named A; and A is a key exactly when that set is
\* not empty.
C23_ListIsUnionOverGeometries ==
  loadState = "loaded" =>
    \A i \in 1..Len(Geometries) :
      LET A == NameOf(i)
      IN  /\ A \in DOMAIN neighborMap <=> BorderingNames(A) # {}
          /\ Range(MapGetOrEmpty(neighborMap, A)) = BorderingNames(A)

(***************************************************************************)
(* Claims about the rounds of the Neighbors game (checked under SpecGames).*)
(***************************************************************************)
IsPrefix(s, t) == Len(s) <= Len(t) /\ SubSeq(t, 1, Len(s)) = s

\* C24: each guess works on the state all earlier guesses left: what is in
\* found and in missed stays there, a not yet recorded neighbor guessed while
\* playing is in found afterwards, found never holds a name twice, and the
\* score rises by at most 1 in a round (only in the step that wins it, and
\* not again once the round is won).
C24_NoLostUpdate ==
  /\ [][\A value \in NeighborTexts :
          (mode = "neighbors" /\ InputStep(value) /\ GuessOf(value) # null) =>
            /\ IsPrefix(Found, gameState'.foundNeighbors)
            /\ IsPrefix(Missed, gameState'.missedGuesses)
            /\ ( /\ gameState.gameStatus = "playing"
                 /\ ~NoTarget(gameState)
                 /\ GuessOf(value) \in Range(TargetNeighbors) ) =>
                 GuessOf(value) \in Range(gameState'.foundNeighbors)
            /\ gameState'.score \in {gameState.score, gameState.score + 1}
            /\ gameState'.score # gameState.score =>
                 gameState.gameStatus = "playing" /\ gameState'.gameStatus = "won"]_vars
  /\ [](Cardinality(Range(Found)) = Len(Found))

\* The third guess of a round was handled: two neighbors are found, one
\* guess is missed, and the round is won with its one point.
C24_Witness ==
  /\ lastEvent.op = "handleInputChange"
  /\ Len(Found) = 2
  /\ Len(Missed) = 1
  /\ gameState.gameStatus = "won"
  /\ gameState.score = 1

\* The countries some input text resolves to.
ResolvableCountries == {countryAliases[key] : key \in DOMAIN countryAliases}

\* Some sequence of resolvable guesses takes the round from gs to won.  Only
\* guesses in the target's list are tried: any other guess goes to missed and
\* changes nothing else.
RECURSIVE CanWin(_)
CanWin(gs) ==
  \/ gs.gameStatus = "won"
  \/ \E guess \in ResolvableCountries
                    \cap Range(MapGetOrEmpty(neighborMap, gs.targetCountry)) :
       LET next == checkGuess(gs, neighborMap, guess)
       IN  next # gs /\ CanWin(next)

\* C25: every round with a target chosen from the built map can be won by
\* typing texts that the resolver resolves.
C25_EveryRoundWinnable ==
  (mode = "neighbors" /\ gameState.gameStatus = "playing" /\ ~NoTarget(gameState)) =>
    CanWin(gameState)

(***************************************************************************)
(* Typing: the player types canonical names one character at a time; each  *)
(* keystroke hands the handler the text it left in the input plus the next *)
(* character of a name of which that text is the beginning.                *)
(***************************************************************************)
TypedNames == {"Niger", "Nigeria", "Ukraine", "Spain", "France"}

InitTyping == InitApp({TopologyIberia}, "classic") \/ InitApp({TopologyIberia}, "neighbors")

Keystroke ==
  \E X \in TypedNames :
    \E k \in 1..Len(X) :
      /\ input = SubSeq(X, 1, k - 1)
      /\ HandleInputChange(SubSeq(X, 1, k))

NextTyping ==
  \/ DataLoaded
  \/ HandleStartGame
  \/ StartNewRound
  \/ Keystroke

SpecTyping == InitTyping /\ [][NextTyping]_vars

\* The country X is not yet found in the active mode.
NotYetFound(X) ==
  IF mode = "classic" THEN ~IsGuessed(guessedCountries, X) ELSE X \notin Range(Found)

\* C26: while the canonical name of a not yet found country X is typed one
\* character at a time from an empty input, Classic mode adds no country other
\* than X to found, and the keystroke that completes the name forwards X to
\* the guess of the active mode.
C26_TypingReachesCountry ==
  [][\A X \in TypedNames :
       \A k \in 1..Len(X) :
         ( /\ input = SubSeq(X, 1, k - 1)
           /\ NotYetFound(X)
           /\ InputStep(SubSeq(X, 1, k)) ) =>
           /\ mode = "classic" =>
                Range(guessedOrder') \subseteq Range(guessedOrder) \cup {X}
           /\ k = Len(X) => (GuessOf(X) = X /\ Forwarded(X))]_vars

(***************************************************************************)
(* Claims about the Neighbors state (checked under SpecGames).             *)
(***************************************************************************)
\* C27: with an active target, every name in found is in the target's list
\* of the adjacency map and no name in missed is.
C27_FoundAreNeighborsMissedAreNot ==
  ~NoTarget(gameState) =>
    /\ Range(Found) \subseteq Range(TargetNeighbors)
    /\ Range(Missed) \cap Range(TargetNeighbors) = {}

\* A round being played with one neighbor found and two guesses missed.
C27_Witness ==
  /\ ~NoTarget(gameState)
  /\ gameState.gameStatus = "playing"
  /\ Len(Found) = 1
  /\ Len(Missed) = 2

\* C28: the status is won only with an active target whose neighbors are all
\* in found (found and the target's list are equal as sets), and the status
\* is playing with an active target only while found does not cover the
\* target's neighbors.
C28_WonIffAllFound ==
  /\ gameState.gameStatus = "won" =>
       /\ ~NoTarget(gameState)
       /\ Range(Found) = Range(TargetNeighbors)
  /\ (gameState.gameStatus = "playing" /\ ~NoTarget(gameState)) =>
       ~(Range(TargetNeighbors) \subseteq Range(Found))

(***************************************************************************)
(* Claims about the display order and about Give Up (under SpecGames).     *)
(***************************************************************************)
\* C29: in every Classic state guessedOrder holds no entry twice and holds
\* exactly the entries marked true in guessedCountries (each under its
\* property key), so its length is the displayed guess count; across start,
\* guess and give-up.
C29_OrderMatchesGuessed ==
  /\ Cardinality(Range(guessedOrder)) = Len(guessedOrder)
  /\ {ToPropertyKey(country) : country \in Range(guessedOrder)} = guessedCountries
  /\ Len(guessedOrder) = guessCount

\* Give Up was pressed after the player had found two countries: the order
\* holds the two finds followed by the revealed rest.
C29_Witness ==
  /\ mode = "classic"
  /\ lastEvent.op = "handleGiveUp"
  /\ Len(PlayerFound) = 2
  /\ Len(revealedCountries) > 0
  /\ guessedOrder = PlayerFound \o revealedCountries

\* C30: once Give Up has been pressed in a Neighbors round, no later guess of
\* the round changes found, status or score, and the names revealed by Give Up
\* stay disjoint from found until the next round is started.
C30_GivenUpRoundIsFrozen ==
  /\ [][\A value \in NeighborTexts :
          (mode = "neighbors" /\ gaveUpThisRound /\ InputStep(value)) =>
            /\ gameState'.foundNeighbors = Found
            /\ gameState'.gameStatus = gameState.gameStatus
            /\ gameState'.score = gameState.score]_vars
  /\ [](gaveUpThisRound => Range(revealedByGiveUp) \cap Range(Found) = {})

====
